---- MODULE Spec2Model ----
(***************************************************************************)
(* Pangfish: Multi-Power RSA (src/multipowerrsa.c) and Twofish             *)
(* (src/twofish.c) as state machines.                                      *)
(*                                                                         *)
(* Big integers (mpz_t) are TLA+ integers; the GMP calls the code makes    *)
(* are operators named after them.  Key buffers are sequences of one-      *)
(* character strings.                                                      *)
(***************************************************************************)
EXTENDS Integers, Sequences, FiniteSets, TLC

(***************************************************************************)
(* Bounds of the model.                                                    *)
(***************************************************************************)
\* key sizes the caller passes to mp_rsa_init
MinKeySize == 9
MaxKeySize == 9
\* power parameters the caller passes to mp_rsa_init
MinB == 1
MaxB == 4
\* how far above the modulus the messages and ciphertexts offered go
Slack == 1
\* largest exponent mpz_pow_ui is asked for before GMP gives up (overflow abort)
MaxPow == 8
MaxKeyings == 2
MaxKeyingsUsed == 1

VARIABLES
    ctx,        \* the mp_rsa_ctx
    alive,      \* FALSE once the process has been terminated (GMP abort, trap)
    op,         \* the last call made on the context
    rc,         \* its return code
    message,    \* the caller's mpz_t passed as `message`
    cipher,     \* the caller's mpz_t passed as `cipher`
    wrote,      \* whether the last call assigned its output mpz_t
    m0,         \* the plaintext whose encryption under ctx is in `cipher`, or NoMsg
    dec,        \* the locals of the last mp_rsa_decrypt call
    key,        \* the caller's key buffer (export output / import input)
    key_len,    \* the length reported for it
    exported,   \* the context as it was when `key` was exported
    keying,     \* the last call that wrote key material, and how it ended
    tf,         \* the TWOFISH_CTX: K and QF
    tf_key,     \* the key size in bits tf was last keyed with, 0 before
    PT,         \* the caller's 16-byte block buffer
    tf_ops,     \* the block calls made on PT since it was loaded
    tf_blocks,  \* the contents of PT when loaded and after each of those calls
    gen,        \* where a running mp_rsa_generate_keys call is: "idle" when none
    threads     \* the call each thread sharing the contexts is in, and its locals

mprsa_vars == <<ctx, alive, op, rc, message, cipher, wrote, m0, dec, key, key_len,
                exported, keying>>
tf_vars == <<tf, tf_key, PT, tf_ops, tf_blocks>>
step_vars == <<gen, threads>>
vars == <<ctx, alive, op, rc, message, cipher, wrote, m0, dec, key, key_len, exported,
          keying, tf, tf_key, PT, tf_ops, tf_blocks, gen, threads>>

NoMsg == 0 - 1

(***************************************************************************)
(* GMP operations used by the code.                                        *)
(***************************************************************************)
Abs(x) == IF x < 0 THEN -x ELSE x

RECURSIVE mpz_gcd(_, _)
mpz_gcd(a, b) == IF b = 0 THEN Abs(a) ELSE mpz_gcd(b, a % Abs(b))

\* a^k for a machine-word exponent k
RECURSIVE mpz_pow_ui(_, _)
mpz_pow_ui(a, k) == IF k = 0 THEN 1 ELSE a * mpz_pow_ui(a, k - 1)

\* base^exp mod m for exp >= 0 and m # 0; the result is in 0..|m|-1
RECURSIVE PowMod(_, _, _)
PowMod(base, exp, m) ==
    IF exp = 0 THEN 1 % m
    ELSE LET half == PowMod(base, exp \div 2, m)
             s == (half * half) % m
         IN  IF exp % 2 = 1 THEN (s * (base % m)) % m ELSE s

\* extended Euclid: <<g, x, y>> with a*x + b*y = g
RECURSIVE EGcd(_, _)
EGcd(a, b) ==
    IF b = 0 THEN <<a, 1, 0>>
    ELSE LET r == EGcd(b, a % b)
         IN  <<r[1], r[3], r[2] - (a \div b) * r[3]>>

\* mpz_invert(rop, a, m): returns nonzero and sets rop in 0..|m|-1 when the
\* inverse exists; returns 0 and leaves rop undefined when it does not.
\* `undef` is what an undefined rop then holds.
mpz_invert(a, m, undef) ==
    IF m = 0 THEN (IF a = 1 THEN [ok |-> TRUE, val |-> 1]
                    ELSE [ok |-> FALSE, val |-> undef])
    ELSE LET g == EGcd(a % Abs(m), Abs(m))
         IN  IF g[1] = 1 THEN [ok |-> TRUE, val |-> g[2] % Abs(m)]
             ELSE [ok |-> FALSE, val |-> undef]

\* mpz_powm(rop, base, exp, m): a zero modulus raises a division by zero, and so
\* does a negative exponent when base has no inverse mod m
mpz_powm_raises(base, exp, m) ==
    m = 0 \/ (exp < 0 /\ ~mpz_invert(base, m, 0).ok)

mpz_powm(base, exp, m) ==
    IF exp >= 0 THEN PowMod(base, exp, Abs(m))
    ELSE PowMod(mpz_invert(base, m, 0).val, -exp, Abs(m))

IsPrime(x) == x >= 2 /\ \A k \in 2..(x - 1) : k * k > x \/ x % k # 0

\* the next prime greater than x
RECURSIVE mpz_nextprime(_)
mpz_nextprime(x) == IF IsPrime(x + 1) THEN x + 1 ELSE mpz_nextprime(x + 1)

mpz_setbit(x, k) ==
    IF (x \div mpz_pow_ui(2, k)) % 2 = 1 THEN x ELSE x + mpz_pow_ui(2, k)

(***************************************************************************)
(* mp_rsa_init                                                             *)
(***************************************************************************)
PublicExponent == 65537

mp_rsa_init(key_size, b) ==
    [key_size |-> key_size, b |-> b,
     p |-> 0, q |-> 0, n |-> 0, e |-> PublicExponent, d |-> 0,
     r1 |-> 0, r2 |-> 0, phi_n |-> 0, p_power |-> 0]

NoDec == [ran |-> FALSE]
NoKey == <<>>
NoExport == [kind |-> "none"]

\* the MPRSA side after mp_rsa_init(key_size, b)
mprsa_start(key_size, b) ==
    /\ ctx = mp_rsa_init(key_size, b)
    /\ alive = TRUE
    /\ op = "init"
    /\ rc = 0
    /\ message = 0
    /\ cipher = 0
    /\ wrote = FALSE
    /\ m0 = NoMsg
    /\ dec = NoDec
    /\ key = NoKey
    /\ key_len = 0
    /\ exported = NoExport
    /\ keying = [op |-> "init", rc |-> 0, fresh |-> TRUE, calls |-> 0, keyed |-> FALSE]

\* The caller (src/pangfish-0.5.0/rsa_wrapper.c) makes one call at a time, each
\* with freshly initialised mpz_t arguments, and clears them before the next.
Idle == op \notin {"encrypt", "decrypt"}

\* the caller keys one context at most MaxKeyings times before it makes a new one
MayKey == keying.calls < MaxKeyings

\* and exports, encrypts or decrypts under a context it has keyed at most
\* MaxKeyingsUsed times
MayUse == keying.calls <= MaxKeyingsUsed

(***************************************************************************)
(* generate_prime, mp_rsa_generate_keys                                    *)
(***************************************************************************)
\* r is what mpz_urandomb returned: any value of `bits` bits
generate_prime(bits, r) ==
    mpz_nextprime(mpz_setbit(mpz_setbit(r, bits - 1), 0))

bit_size_p(c) == ((c.key_size * 2) \div 3) \div c.b
bit_size_q(c) == c.key_size \div 3

\* the primes generate_prime can return for each bit size
MaxBits == (2 * (MaxKeySize + 1)) \div 3
RECURSIVE PrimesUpTo(_)
PrimesUpTo(bits) ==
    IF bits = 0 THEN <<>>
    ELSE Append(PrimesUpTo(bits - 1),
                {generate_prime(bits, r) : r \in 0..(mpz_pow_ui(2, bits) - 1)})
Primes == PrimesUpTo(MaxBits)

\* one pass of the do-while body with the primes p and q drawn
GenIteration(c, p, q) ==
    LET p_power   == mpz_pow_ui(p, c.b - 1)
        n         == p_power * q
        p_minus_1 == p - 1
        q_minus_1 == q - 1
        phi_n     == IF c.b > 2
                     THEN (p_minus_1 * mpz_pow_ui(p, c.b - 2)) * q_minus_1
                     ELSE p_minus_1 * q_minus_1
    IN  [c EXCEPT !.p = p, !.q = q, !.p_power = p_power, !.n = n,
                  !.phi_n = phi_n]

\* the statements after the loop
GenFinish(c) ==
    LET d == mpz_invert(c.e, c.phi_n, c.d).val
    IN  [c EXCEPT !.d = d, !.r1 = d % (c.p - 1), !.r2 = d % (c.q - 1)]

\* the mutant of LoopExits: the first draw is kept
LoopExitsAtOnce(c) == TRUE

\* while (mpz_cmp_ui(temp, 1) != 0) with temp = gcd(e, phi_n)
LoopExits(c) == mpz_gcd(c.e, c.phi_n) = 1

\* the inputs on which the code divides by zero or asks GMP for bit -1
GenTraps(c) == IF c.b = 0 THEN TRUE ELSE bit_size_p(c) = 0 \/ bit_size_q(c) = 0

mp_rsa_generate_keys ==
    /\ UNCHANGED <<tf_vars, step_vars>>
    /\ alive /\ Idle /\ MayKey
    /\ ~GenTraps(ctx)
    /\ \E p \in Primes[bit_size_p(ctx)], q \in Primes[bit_size_q(ctx)] :
          LET c == GenIteration(ctx, p, q)
          IN  /\ LoopExits(c)
              /\ ctx' = GenFinish(c)
    /\ op' = "generate_keys"
    /\ rc' = 0
    /\ key' = NoKey /\ key_len' = 0 /\ exported' = NoExport
    /\ keying' = [op |-> "generate_keys", rc |-> 0, fresh |-> keying.op = "init",
                  calls |-> keying.calls + 1, keyed |-> TRUE]
    /\ UNCHANGED <<alive, message, cipher, wrote, m0, dec>>

mp_rsa_generate_keys_trap ==
    /\ UNCHANGED <<tf_vars, step_vars>>
    /\ alive /\ Idle /\ MayKey
    /\ GenTraps(ctx)
    /\ alive' = FALSE
    /\ op' = "generate_keys"
    /\ UNCHANGED <<ctx, rc, message, cipher, wrote, m0, dec, key, key_len,
                   exported, keying>>

(***************************************************************************)
(* mp_rsa_encrypt                                                          *)
(***************************************************************************)
\* the mutant of mp_rsa_encrypt_run: the error path stores the message in cipher
mp_rsa_encrypt_run_stores(c, m, old) ==
    IF m >= c.n
    THEN [result |-> -1, wrote |-> TRUE, cipher |-> m]
    ELSE [result |-> 0, wrote |-> TRUE, cipher |-> mpz_powm(m, c.e, c.n)]

\* [result, wrote, cipher]: the return code, whether `cipher` was assigned and
\* what the call leaves in it when `old` was there
mp_rsa_encrypt_run(c, m, old) ==
    IF m >= c.n
    THEN [result |-> -1, wrote |-> FALSE, cipher |-> old]
    ELSE [result |-> 0, wrote |-> TRUE, cipher |-> mpz_powm(m, c.e, c.n)]

\* the only GMP call that can raise: mpz_powm, reached when message < n
mp_rsa_encrypt_raises(c, m) ==
    m < c.n /\ mpz_powm_raises(m, c.e, c.n)

Messages(c) == 0..(IF c.n < 0 THEN Slack ELSE c.n + Slack)

mp_rsa_encrypt ==
    /\ UNCHANGED <<tf_vars, step_vars>>
    /\ alive /\ Idle /\ MayUse
    /\ \E m \in Messages(ctx) :
          /\ ~mp_rsa_encrypt_raises(ctx, m)
          /\ LET r == mp_rsa_encrypt_run(ctx, m, cipher)
             IN  /\ rc' = r.result
                 /\ cipher' = r.cipher
                 /\ wrote' = r.wrote
                 /\ m0' = IF r.result = 0 THEN m ELSE NoMsg
          /\ message' = m
    /\ op' = "encrypt"
    /\ dec' = NoDec
    /\ key' = NoKey /\ key_len' = 0 /\ exported' = NoExport
    /\ UNCHANGED <<ctx, alive, keying>>

(***************************************************************************)
(* mp_rsa_decrypt                                                          *)
(***************************************************************************)
\* the temporaries in the order the code initialises them
DecTemps == <<"m1", "m2", "m_prime1", "error", "correction", "inverse",
              "p_power_i", "temp">>
CrtTemps == <<"q_inv", "p_power_inv", "term1", "term2">>

\* one pass of the lifting loop body; st holds m_prime1, the iteration count and
\* whether a GMP call raised; uh is what `inverse` holds when mpz_invert fails
HenselStep(c, cipher_in, i, st, uh) ==
    LET p_power_i  == mpz_pow_ui(c.p, i + 1)
        error      == (mpz_powm(st.m_prime1, c.e, p_power_i) - cipher_in) % p_power_i
        correction == error \div mpz_pow_ui(c.p, i)
        raises     == mpz_powm_raises(st.m_prime1, c.e - 1, c.p)
        temp       == (mpz_powm(st.m_prime1, c.e - 1, c.p) * c.e) % c.p
        inverse    == mpz_invert(temp, c.p, uh).val
        adjust     == ((correction * inverse) % c.p) * p_power_i
    IN  IF raises
        THEN [st EXCEPT !.raised = TRUE]
        ELSE [st EXCEPT !.m_prime1 = (st.m_prime1 - adjust) % p_power_i,
                        !.iters = st.iters + 1]

\* for (i = 1; i < ctx->b - 1; i++), entered with ctx->b > 2
RECURSIVE HenselLoop(_, _, _, _, _)
HenselLoop(c, cipher_in, i, st, uh) ==
    IF st.raised \/ ~(i < c.b - 1) THEN st
    ELSE HenselLoop(c, cipher_in, i + 1, HenselStep(c, cipher_in, i, st, uh), uh)

\* the mutant of Lift: the loop body runs once whatever b is
LiftOnce(c, cipher_in, m1, uh) ==
    HenselStep(c, cipher_in, 1, [m_prime1 |-> m1, iters |-> 0, raised |-> FALSE], uh)

\* the if (ctx->b > 2) statement: m_prime1 starts as m1 and is lifted
Lift(c, cipher_in, m1, uh) ==
    IF c.b > 2
    THEN HenselLoop(c, cipher_in, 1, [m_prime1 |-> m1, iters |-> 0, raised |-> FALSE], uh)
    ELSE [m_prime1 |-> m1, iters |-> 0, raised |-> FALSE]

\* the mutant of CipherTooLarge: cipher = n passes
CipherAboveN(c, cipher_in) == cipher_in > c.n

\* mpz_cmp(cipher, ctx->n) >= 0
CipherTooLarge(c, cipher_in) == cipher_in >= c.n

\* the whole call on ciphertext cipher_in, with `old` in the output message;
\* uh, uq, up are the contents of an undefined inverse, q_inv, p_power_inv
mp_rsa_decrypt_run(c, cipher_in, old, uh, uq, up) ==
    IF CipherTooLarge(c, cipher_in)
    THEN [raised |-> FALSE, result |-> -1, wrote |-> FALSE, message |-> old,
          iters |-> 0, m1 |-> 0, m2 |-> 0, m_prime1 |-> 0,
          inited |-> DecTemps, cleared |-> DecTemps]
    ELSE IF mpz_powm_raises(cipher_in, c.r1, c.p) \/ mpz_powm_raises(cipher_in, c.r2, c.q)
    THEN [raised |-> TRUE, result |-> 0, wrote |-> FALSE, message |-> old,
          iters |-> 0, m1 |-> 0, m2 |-> 0, m_prime1 |-> 0,
          inited |-> DecTemps, cleared |-> <<>>]
    ELSE
    LET m1 == mpz_powm(cipher_in, c.r1, c.p)
        m2 == mpz_powm(cipher_in, c.r2, c.q)
        st == Lift(c, cipher_in, m1, uh)
        q_inv == mpz_invert(c.q, c.p_power, uq).val
        p_power_inv == mpz_invert(c.p_power, c.q, up).val
        term1 == ((st.m_prime1 * c.q) * q_inv) % c.n
        term2 == ((m2 * c.p_power) * p_power_inv) % c.n
    IN  IF st.raised \/ c.n = 0
        THEN [raised |-> TRUE, result |-> 0, wrote |-> FALSE, message |-> old,
              iters |-> st.iters, m1 |-> m1, m2 |-> m2, m_prime1 |-> st.m_prime1,
              inited |-> DecTemps, cleared |-> <<>>]
        ELSE [raised |-> FALSE, result |-> 0, wrote |-> TRUE,
              message |-> (term1 + term2) % c.n,
              iters |-> st.iters, m1 |-> m1, m2 |-> m2, m_prime1 |-> st.m_prime1,
              inited |-> DecTemps \o CrtTemps, cleared |-> CrtTemps \o DecTemps]

\* values an undefined rop may hold
MaxUndef == 1
Undef(defined) == IF defined THEN {0} ELSE 0..MaxUndef

\* the ciphertexts offered: any value when the caller starts afresh, the output
\* of the encryption just made when the caller passes it on
Ciphertexts ==
    IF Idle THEN Messages(ctx)
    ELSE IF op = "encrypt" /\ rc = 0 THEN {cipher} ELSE {}

mp_rsa_decrypt ==
    /\ UNCHANGED <<tf_vars, step_vars>>
    /\ alive /\ MayUse
    /\ \E c \in Ciphertexts :
       \E uh \in Undef(ctx.b <= 2),
          uq \in Undef(mpz_invert(ctx.q, ctx.p_power, 0).ok),
          up \in Undef(mpz_invert(ctx.p_power, ctx.q, 0).ok) :
          LET r == mp_rsa_decrypt_run(ctx, c, 0, uh, uq, up)
          IN  /\ alive' = ~r.raised
              /\ rc' = IF r.raised THEN rc ELSE r.result
              /\ message' = r.message
              /\ wrote' = r.wrote
              /\ cipher' = c
              /\ m0' = IF Idle THEN NoMsg ELSE m0
              /\ dec' = [ran |-> TRUE, raised |-> r.raised, iters |-> r.iters,
                         m1 |-> r.m1, m2 |-> r.m2, m_prime1 |-> r.m_prime1,
                         inited |-> r.inited, cleared |-> r.cleared]
    /\ op' = "decrypt"
    /\ key' = NoKey /\ key_len' = 0 /\ exported' = NoExport
    /\ UNCHANGED <<ctx, keying>>

\* the caller clears its mpz_t arguments after a call (rsa_wrapper.c cleanup)
release ==
    /\ UNCHANGED <<tf_vars, step_vars>>
    /\ alive /\ ~Idle
    /\ op' = "release"
    /\ rc' = 0
    /\ message' = 0 /\ cipher' = 0 /\ wrote' = FALSE /\ m0' = NoMsg /\ dec' = NoDec
    /\ UNCHANGED <<ctx, alive, key, key_len, exported, keying>>

(***************************************************************************)
(* Strings.  The alphabet of the model: hex digits of both cases, ':', and *)
(* letters that are not hex digits; signs and white space do not occur.    *)
(***************************************************************************)
HexDigits == <<"0", "1", "2", "3", "4", "5", "6", "7", "8", "9",
               "a", "b", "c", "d", "e", "f">>
UpperDigits == <<"0", "1", "2", "3", "4", "5", "6", "7", "8", "9",
                 "A", "B", "C", "D", "E", "F">>

\* the value of a digit character, or NoDigit
NoDigit == 99
DigitValue(ch) ==
    IF \E v \in 1..16 : HexDigits[v] = ch
    THEN (CHOOSE v \in 1..16 : HexDigits[v] = ch) - 1
    ELSE IF \E v \in 1..16 : UpperDigits[v] = ch
    THEN (CHOOSE v \in 1..16 : UpperDigits[v] = ch) - 1
    ELSE NoDigit

\* mpz_get_str(NULL, base, x) for x >= 0
RECURSIVE mpz_get_str(_, _)
mpz_get_str(base, x) ==
    IF x < base THEN <<HexDigits[x + 1]>>
    ELSE mpz_get_str(base, x \div base) \o <<HexDigits[(x % base) + 1]>>

\* the mutant of mpz_sizeinbase: no room is counted for the digits
mpz_sizeinbase_none(x, base) == 0

mpz_sizeinbase(x, base) == Len(mpz_get_str(base, Abs(x)))

\* mpz_set_str(rop, str, base): 0 and the value, or -1 with rop left alone
RECURSIVE DigitsValue(_, _, _)
DigitsValue(str, base, acc) ==
    IF str = <<>> THEN acc
    ELSE DigitsValue(Tail(str), base, acc * base + DigitValue(Head(str)))

mpz_set_str(old, str, base) ==
    IF str = <<>> \/ \E i \in 1..Len(str) : DigitValue(str[i]) >= base
    THEN [rc |-> -1, val |-> old]
    ELSE [rc |-> 0, val |-> DigitsValue(str, base, 0)]

\* atoi: the decimal digits the string starts with, 0 when it starts with none
RECURSIVE atoi_acc(_, _)
atoi_acc(str, acc) ==
    IF str = <<>> \/ DigitValue(Head(str)) >= 10 \/ Head(str) \notin {HexDigits[v] : v \in 1..10}
    THEN acc
    ELSE atoi_acc(Tail(str), acc * 10 + DigitValue(Head(str)))

atoi(str) == atoi_acc(str, 0)

\* the mutant of strchr: the first character is taken for ch
strchr_first(str, ch) == 1

\* strchr(str, ch): the index of the first ch, 0 for NULL
strchr(str, ch) ==
    IF \E i \in 1..Len(str) : str[i] = ch
    THEN CHOOSE i \in 1..Len(str) : str[i] = ch /\ \A j \in 1..(i - 1) : str[j] # ch
    ELSE 0

\* strndup(str, len): at most len characters of str
strndup(str, len) == SubSeq(str, 1, IF len < Len(str) THEN len ELSE Len(str))

\* snprintf(buf, size, ...): at most size - 1 characters of the formatted text
snprintf(size, text) == SubSeq(text, 1, IF size - 1 < Len(text) THEN size - 1 ELSE Len(text))

After(str, i) == SubSeq(str, i + 1, Len(str))
Before(str, i) == SubSeq(str, 1, i - 1)

(***************************************************************************)
(* mp_rsa_export_public_key, mp_rsa_export_private_key                     *)
(***************************************************************************)
mp_rsa_export_public_key_run(c) ==
    LET n_size == mpz_sizeinbase(c.n, 16) + 2
        e_size == mpz_sizeinbase(c.e, 16) + 2
        len    == n_size + e_size + 2
    IN  [result |-> 0, key_len |-> len,
         key |-> snprintf(len, mpz_get_str(16, c.n) \o <<":">> \o mpz_get_str(16, c.e))]

mp_rsa_export_private_key_run(c) ==
    LET p_size  == mpz_sizeinbase(c.p, 16) + 2
        q_size  == mpz_sizeinbase(c.q, 16) + 2
        r1_size == mpz_sizeinbase(c.r1, 16) + 2
        r2_size == mpz_sizeinbase(c.r2, 16) + 2
        len     == p_size + q_size + r1_size + r2_size + 5
    IN  [result |-> 0, key_len |-> len,
         key |-> snprintf(len, mpz_get_str(16, c.p) \o <<":">> \o
                               mpz_get_str(16, c.q) \o <<":">> \o
                               mpz_get_str(16, c.r1) \o <<":">> \o
                               mpz_get_str(16, c.r2) \o <<":">> \o
                               mpz_get_str(10, c.b))]

Export(kind, r) ==
    /\ UNCHANGED <<tf_vars, step_vars>>
    /\ alive /\ Idle /\ MayUse
    /\ op' = kind
    /\ rc' = r.result
    /\ key' = r.key
    /\ key_len' = r.key_len
    /\ exported' = [kind |-> kind, ctx |-> ctx, keying |-> keying]
    /\ UNCHANGED <<ctx, alive, message, cipher, wrote, m0, dec, keying>>

mp_rsa_export_public_key == Export("export_public", mp_rsa_export_public_key_run(ctx))

mp_rsa_export_private_key == Export("export_private", mp_rsa_export_private_key_run(ctx))

(***************************************************************************)
(* mp_rsa_import_public_key, mp_rsa_import_private_key                     *)
(***************************************************************************)
\* [result, ctx]: the return code and the context the call leaves
mp_rsa_import_public_key_run(c, k, len) ==
    LET key_copy == strndup(k, len)
        colon    == strchr(key_copy, ":")
        n_set    == mpz_set_str(c.n, Before(key_copy, colon), 16)
        e_set    == mpz_set_str(c.e, After(key_copy, colon), 16)
    IN  IF colon = 0 THEN [result |-> -2, ctx |-> c]
        ELSE IF n_set.rc # 0 THEN [result |-> -3, ctx |-> c]
        ELSE IF e_set.rc # 0 THEN [result |-> -3, ctx |-> [c EXCEPT !.n = n_set.val]]
        ELSE [result |-> 0, ctx |-> [c EXCEPT !.n = n_set.val, !.e = e_set.val]]

\* ctx->b - 1 in unsigned arithmetic is out of the model's integers when b = 0,
\* and so is the power beyond MaxPow: the call does not return in the model
PowTooBig(base, b) == Abs(base) >= 2 /\ (b = 0 \/ b - 1 > MaxPow)
pow_b_minus_1(base, b) == IF Abs(base) < 2 /\ b = 0 THEN base ELSE mpz_pow_ui(base, b - 1)

\* the mutant of Recompute: p_power and n are left as they were
RecomputeNothing(c) == c

\* mpz_pow_ui(ctx->p_power, ctx->p, ctx->b - 1); mpz_mul(ctx->n, ctx->p_power, ctx->q)
Recompute(c) ==
    LET p_power == pow_b_minus_1(c.p, c.b)
    IN  [c EXCEPT !.p_power = p_power, !.n = p_power * c.q]

mp_rsa_import_private_key_run(c, k, len) ==
    LET key_copy == strndup(k, len)
        c1       == strchr(key_copy, ":")
        q_str    == After(key_copy, c1)
        c2       == strchr(q_str, ":")
        r1_str   == After(q_str, c2)
        c3       == strchr(r1_str, ":")
        r2_str   == After(r1_str, c3)
        c4       == strchr(r2_str, ":")
        b_str    == After(r2_str, c4)
        p_set    == mpz_set_str(c.p, Before(key_copy, c1), 16)
        q_set    == mpz_set_str(c.q, Before(q_str, c2), 16)
        r1_set   == mpz_set_str(c.r1, Before(r1_str, c3), 16)
        r2_set   == mpz_set_str(c.r2, Before(r2_str, c4), 16)
        b        == atoi(b_str)
    IN  IF c1 = 0 \/ c2 = 0 \/ c3 = 0 \/ c4 = 0
        THEN [result |-> -2, raised |-> FALSE, ctx |-> c]
        ELSE IF p_set.rc # 0
        THEN [result |-> -3, raised |-> FALSE, ctx |-> c]
        ELSE IF q_set.rc # 0
        THEN [result |-> -3, raised |-> FALSE, ctx |-> [c EXCEPT !.p = p_set.val]]
        ELSE IF r1_set.rc # 0
        THEN [result |-> -3, raised |-> FALSE,
              ctx |-> [c EXCEPT !.p = p_set.val, !.q = q_set.val]]
        ELSE IF r2_set.rc # 0
        THEN [result |-> -3, raised |-> FALSE,
              ctx |-> [c EXCEPT !.p = p_set.val, !.q = q_set.val, !.r1 = r1_set.val]]
        ELSE IF PowTooBig(p_set.val, b)
        THEN [result |-> 0, raised |-> TRUE,
              ctx |-> [c EXCEPT !.p = p_set.val, !.q = q_set.val, !.r1 = r1_set.val,
                                !.r2 = r2_set.val, !.b = b]]
        ELSE [result |-> 0, raised |-> FALSE,
              ctx |-> Recompute([c EXCEPT !.p = p_set.val, !.q = q_set.val,
                                          !.r1 = r1_set.val, !.r2 = r2_set.val,
                                          !.b = b])]

\* the key texts the caller offers besides the buffer it holds from an export
PublicKeyTexts ==
    { <<"f", ":", "3">>,
      <<"d", "e", "a", "d", "b", "e", "e", "f">>,
      <<"f", ":", "g">>,
      <<"f", ":", "2">> }
PrivateKeyTexts ==
    { <<"5", ":", "7", ":", "1", ":", "5", ":", "3">>,
      <<"5", ":", "7", ":", "1", ":", "5">>,
      <<"5", ":", "7", ":", "1", ":", "5", ":", "3", "g">>,
      <<"3", ":", "g", ":", "1", ":", "1", ":", "2">>,
      <<"0", ":", "0", ":", "0", ":", "0", ":", "0">> }

\* <<text, length, from_export>> triples an import can be given
Offers(texts, kind) ==
    {<<t, Len(t), FALSE>> : t \in texts} \cup
    (IF exported.kind = kind THEN {<<key, key_len, TRUE>>} ELSE {})

Import(kind, offer, r, returned) ==
    /\ op' = kind
    /\ rc' = IF returned THEN r.result ELSE rc
    /\ ctx' = r.ctx
    /\ key' = offer[1]
    /\ key_len' = offer[2]
    /\ exported' = IF offer[3] THEN exported ELSE NoExport
    /\ keying' = IF returned
                  THEN [op |-> kind, rc |-> r.result, fresh |-> keying.op = "init",
                        calls |-> keying.calls + 1,
                        keyed |-> keying.keyed \/ r.result = 0]
                  ELSE keying
    /\ UNCHANGED <<message, cipher, wrote, m0, dec>>

mp_rsa_import_public_key ==
    /\ UNCHANGED <<tf_vars, step_vars>>
    /\ alive /\ Idle /\ MayKey
    /\ \E offer \in Offers(PublicKeyTexts, "export_public") :
          Import("import_public", offer,
                 mp_rsa_import_public_key_run(ctx, offer[1], offer[2]), TRUE)
    /\ UNCHANGED alive

mp_rsa_import_private_key ==
    /\ UNCHANGED <<tf_vars, step_vars>>
    /\ alive /\ Idle /\ MayKey
    /\ \E offer \in Offers(PrivateKeyTexts, "export_private") :
          LET r == mp_rsa_import_private_key_run(ctx, offer[1], offer[2])
          IN  /\ Import("import_private", offer, r, ~r.raised)
              /\ alive' = ~r.raised

\* a new context: mp_rsa_clear and mp_rsa_init as in MPRSA_init, or a temp_ctx
new_ctx ==
    /\ UNCHANGED <<tf_vars, step_vars>>
    /\ alive /\ Idle
    /\ \E key_size \in MinKeySize..MaxKeySize, b \in MinB..MaxB :
          ctx' = mp_rsa_init(key_size, b)
    /\ op' = "init"
    /\ rc' = 0
    /\ keying' = [op |-> "init", rc |-> 0, fresh |-> TRUE, calls |-> 0,
                  keyed |-> FALSE]
    /\ UNCHANGED <<alive, message, cipher, wrote, m0, dec, key, key_len, exported>>

(***************************************************************************)
(* Twofish (src/twofish.c).  A u32 is the tuple <<b0, b1, b2, b3>> of its  *)
(* bytes, least significant first; a block is a sequence of 16 bytes.      *)
(***************************************************************************)
\* a ^ b on naturals
RECURSIVE Xor(_, _)
Xor(a, b) ==
    IF a = 0 THEN b
    ELSE IF b = 0 THEN a
    ELSE ((a + b) % 2) + 2 * Xor(a \div 2, b \div 2)

\* the u32 of a natural below 2^31
U32(x) == <<x % 256, (x \div 256) % 256, (x \div 65536) % 256, (x \div 16777216) % 256>>

Xor32(x, y) == <<Xor(x[1], y[1]), Xor(x[2], y[2]), Xor(x[3], y[3]), Xor(x[4], y[4])>>

\* x + y in u32 arithmetic
Add32(x, y) ==
    LET s1 == x[1] + y[1]
        s2 == x[2] + y[2] + (s1 \div 256)
        s3 == x[3] + y[3] + (s2 \div 256)
        s4 == x[4] + y[4] + (s3 \div 256)
    IN  <<s1 % 256, s2 % 256, s3 % 256, s4 % 256>>

ROL1(x) ==
    <<((2 * x[1]) % 256) + (x[4] \div 128), ((2 * x[2]) % 256) + (x[1] \div 128),
      ((2 * x[3]) % 256) + (x[2] \div 128), ((2 * x[4]) % 256) + (x[3] \div 128)>>

ROR1(x) ==
    <<(x[1] \div 2) + 128 * (x[2] % 2), (x[2] \div 2) + 128 * (x[3] % 2),
      (x[3] \div 2) + 128 * (x[4] % 2), (x[4] \div 2) + 128 * (x[1] % 2)>>

RECURSIVE ROL(_, _)
ROL(x, n) == IF n % 32 = 0 THEN x ELSE ROL(ROL1(x), (n % 32) - 1)

RECURSIVE ROR(_, _)
ROR(x, n) == IF n % 32 = 0 THEN x ELSE ROR(ROR1(x), (n % 32) - 1)

\* BIG_ENDIAN is not 1 in the build
BSWAP(x) == x

b0(x) == x[1]
b1(x) == x[2]
b2(x) == x[3]
b3(x) == x[4]

\* r is a BYTE[4], r[1] its first element
BYTEARRAY_TO_U32(r) == <<r[4], r[3], r[2], r[1]>>
BYTES_TO_U32(r0, r1, r2, r3) == <<r3, r2, r1, r0>>

RS_MOD == 333
RHO == 16843009

RECURSIVE polyMult(_, _)
polyMult(a, b) ==
    IF a = 0 THEN 0
    ELSE Xor(IF a % 2 = 1 THEN b ELSE 0, polyMult(a \div 2, 2 * b))

RECURSIVE gfModLoop(_, _, _)
gfModLoop(t, modulus, i) ==
    IF i = 8 THEN t
    ELSE LET tt == Xor(t, modulus)
         IN  gfModLoop(IF tt < t THEN tt ELSE t, modulus \div 2, i + 1)

gfMod(t, modulus) == gfModLoop(t, modulus * 128, 0)

gfMult(a, b, modulus) == gfMod(polyMult(a, b), modulus)

(***************************************************************************)
(* The fixed tables of tables.h, as the Twofish specification defines      *)
(* them: the permutations q0 and q1 from their 4-bit boxes, the RS matrix, *)
(* and the multiplications by 5B and EF in GF(2^8) modulo x^8+x^6+x^5+x^3+1*)
(***************************************************************************)
Q0Boxes == << <<8, 1, 7, 13, 6, 15, 3, 2, 0, 11, 5, 9, 14, 12, 10, 4>>,
              <<14, 12, 11, 8, 1, 2, 3, 5, 15, 4, 10, 6, 7, 0, 9, 13>>,
              <<11, 10, 5, 14, 6, 13, 9, 0, 12, 8, 15, 3, 2, 4, 7, 1>>,
              <<13, 7, 15, 4, 1, 2, 6, 14, 9, 11, 3, 0, 8, 5, 12, 10>> >>
Q1Boxes == << <<2, 8, 11, 13, 15, 7, 6, 14, 3, 1, 9, 4, 0, 10, 12, 5>>,
              <<1, 14, 2, 11, 4, 12, 3, 7, 6, 13, 10, 5, 15, 9, 0, 8>>,
              <<4, 12, 7, 5, 1, 6, 9, 10, 0, 14, 13, 8, 2, 11, 3, 15>>,
              <<11, 9, 5, 1, 12, 3, 13, 14, 6, 4, 7, 15, 2, 0, 8, 10>> >>

ROR4(x) == (x \div 2) + 8 * (x % 2)

QPermutation(t, x) ==
    LET a0 == x \div 16
        c0 == x % 16
        a1 == Xor(a0, c0)
        c1 == Xor(Xor(a0, ROR4(c0)), (8 * a0) % 16)
        a2 == t[1][a1 + 1]
        c2 == t[2][c1 + 1]
        a3 == Xor(a2, c2)
        c3 == Xor(Xor(a2, ROR4(c2)), (8 * a2) % 16)
    IN  16 * t[4][c3 + 1] + t[3][a3 + 1]

Q0 == [x \in 0..255 |-> QPermutation(Q0Boxes, x)]
Q1 == [x \in 0..255 |-> QPermutation(Q1Boxes, x)]

MDS_MOD == 361
mult5B == [x \in 0..255 |-> gfMult(91, x, MDS_MOD)]
multEF == [x \in 0..255 |-> gfMult(239, x, MDS_MOD)]

RS == << <<1, 164, 85, 135, 90, 88, 219, 158>>,
         <<164, 86, 130, 243, 30, 198, 104, 229>>,
         <<2, 161, 252, 193, 71, 174, 61, 25>>,
         <<164, 85, 135, 90, 88, 219, 158, 3>> >>

(***************************************************************************)
(* The key schedule                                                        *)
(***************************************************************************)
RECURSIVE RSRow(_, _, _)
RSRow(j, sd, k) ==
    IF k = 8 THEN 0
    ELSE Xor(gfMult(RS[j + 1][k + 1], sd[k + 1], RS_MOD), RSRow(j, sd, k + 1))

\* result[3-j] = t for j = 0..3
RSMatrixMultiply(sd) ==
    BYTEARRAY_TO_U32(<<RSRow(3, sd, 0), RSRow(2, sd, 0), RSRow(1, sd, 0), RSRow(0, sd, 0)>>)

\* the switch of h and of fullKey: y is <<y0, y1, y2, y3>>, L[1] is the first
\* element of the array L, and a case falls through to the next one
h_case4(y, L) ==
    <<Xor(Q1[y[1]], b0(L[4])), Xor(Q0[y[2]], b1(L[4])),
      Xor(Q0[y[3]], b2(L[4])), Xor(Q1[y[4]], b3(L[4]))>>

h_case3(y, L) ==
    <<Xor(Q1[y[1]], b0(L[3])), Xor(Q1[y[2]], b1(L[3])),
      Xor(Q0[y[3]], b2(L[3])), Xor(Q0[y[4]], b3(L[3]))>>

h_case2(y, L) ==
    <<Q1[Xor(Q0[Xor(Q0[y[1]], b0(L[2]))], b0(L[1]))],
      Q0[Xor(Q0[Xor(Q1[y[2]], b1(L[2]))], b1(L[1]))],
      Q1[Xor(Q1[Xor(Q0[y[3]], b2(L[2]))], b2(L[1]))],
      Q0[Xor(Q1[Xor(Q1[y[4]], b3(L[2]))], b3(L[1]))]>>

h_switch(y, L, k) ==
    IF k = 4 THEN h_case2(h_case3(h_case4(y, L), L), L)
    ELSE IF k = 3 THEN h_case2(h_case3(y, L), L)
    ELSE IF k = 2 THEN h_case2(y, L)
    ELSE y

\* z0..z3 of h: the MDS matrix times y
h_mds(y) ==
    BYTES_TO_U32(Xor(Xor(multEF[y[1]], y[2]), Xor(multEF[y[3]], mult5B[y[4]])),
                 Xor(Xor(multEF[y[1]], mult5B[y[2]]), Xor(y[3], multEF[y[4]])),
                 Xor(Xor(mult5B[y[1]], multEF[y[2]]), Xor(multEF[y[3]], y[4])),
                 Xor(Xor(y[1], multEF[y[2]]), Xor(mult5B[y[3]], mult5B[y[4]])))

h(X, L, k) == h_mds(h_switch(<<b0(X), b1(X), b2(X), b3(X)>>, L, k))

\* the mutant of fullKey_QF: the entries without the MDS multiples
fullKey_QF_plain(y) ==
    << <<y[1], y[1], y[1], y[1]>>, <<y[2], y[2], y[2], y[2]>>,
       <<y[3], y[3], y[3], y[3]>>, <<y[4], y[4], y[4], y[4]>> >>

\* QF[0][i] .. QF[3][i] from the y0..y3 of index i
fullKey_QF(y) ==
    << <<y[1], mult5B[y[1]], multEF[y[1]], multEF[y[1]]>>,
       <<multEF[y[2]], multEF[y[2]], mult5B[y[2]], y[2]>>,
       <<mult5B[y[3]], multEF[y[3]], y[3], multEF[y[3]]>>,
       <<mult5B[y[4]], y[4], multEF[y[4]], mult5B[y[4]]>> >>

\* the four QF entries of index i, as <<QF[0][i], QF[1][i], QF[2][i], QF[3][i]>>
fullKeyRow(L, k, i) == fullKey_QF(h_switch(<<i, i, i, i>>, L, k))

\* for (i = 0; i < 256; i++): the rows of i = lo, ..., hi - 1 in order
RECURSIVE fullKeyRows(_, _, _, _)
fullKeyRows(L, k, lo, hi) ==
    IF hi = lo + 1 THEN <<fullKeyRow(L, k, lo)>>
    ELSE LET mid == (lo + hi) \div 2
         IN  fullKeyRows(L, k, lo, mid) \o fullKeyRows(L, k, mid, hi)

\* QF[j][i] is fullKey(L, k)[j + 1][i]
fullKey(L, k) ==
    LET rows == fullKeyRows(L, k, 0, 256)
    IN  [j \in 1..4 |-> [i \in 0..255 |-> rows[i + 1][j]]]

\* ((u32*)M)[w], w counted from 0
Word(M, w) == <<M[4 * w + 1], M[4 * w + 2], M[4 * w + 3], M[4 * w + 4]>>

\* K[2i] and K[2i+1] from A and B
KeyPairOf(A, B) == <<Add32(A, B), ROL(Add32(A, Add32(B, B)), 9)>>

KeyPair(Me, Mo, k, i) ==
    KeyPairOf(h(U32((2 * i) * RHO), Me, k), ROL(h(U32((2 * i) * RHO + RHO), Mo, k), 8))

\* Me[i] (first = 0) or Mo[i] (first = 1) for i from the given one up to k - 1
RECURSIVE KeyWords(_, _, _, _)
KeyWords(M, k, first, i) ==
    IF i = k THEN <<>>
    ELSE <<BSWAP(Word(M, 2 * i + first))>> \o KeyWords(M, k, first, i + 1)

\* S[k-i-1] = RSMatrixMultiply(vector) for i from the given one up to k - 1
RECURSIVE SboxKeys(_, _, _, _)
SboxKeys(Me, Mo, k, i) ==
    IF i = k THEN <<>>
    ELSE SboxKeys(Me, Mo, k, i + 1) \o <<RSMatrixMultiply(Me[i + 1] \o Mo[i + 1])>>

\* for (i = 0; i < 20; i++): K[2i], K[2i+1] from i on
RECURSIVE RoundKeys(_, _, _, _)
RoundKeys(Me, Mo, k, i) ==
    IF i = 20 THEN <<>> ELSE KeyPair(Me, Mo, k, i) \o RoundKeys(Me, Mo, k, i + 1)

\* the context twofish_set_key leaves: K[i] is K[i + 1] here
twofish_set_key_run(M, key_size) ==
    LET k  == (key_size + 63) \div 64
        Me == KeyWords(M, k, 0, 0)
        Mo == KeyWords(M, k, 1, 0)
        S  == SboxKeys(Me, Mo, k, 0)
    IN  [K |-> RoundKeys(Me, Mo, k, 0), QF |-> fullKey(S, k)]

\* memset(ctx, 0, sizeof(TWOFISH_CTX))
twofish_init_ctx ==
    [K  |-> [i \in 1..40 |-> <<0, 0, 0, 0>>],
     QF |-> [j \in 1..4 |-> [i \in 0..255 |-> <<0, 0, 0, 0>>]]]

(***************************************************************************)
(* Block encryption and decryption                                         *)
(***************************************************************************)
fkh(c, X) ==
    Xor32(Xor32(c.QF[1][b0(X)], c.QF[2][b1(X)]),
          Xor32(c.QF[3][b2(X)], c.QF[4][b3(X)]))

\* R is <<R0, R1, R2, R3>>; i0..i3 say which of them the macro is given
ENC_ROUND(c, R, i0, i1, i2, i3, round) ==
    LET T0 == fkh(c, R[i0])
        T1 == fkh(c, ROL(R[i1], 8))
        r2 == ROR(Xor32(R[i2], Add32(Add32(T1, T0), c.K[2 * round + 8 + 1])), 1)
        r3 == Xor32(ROL(R[i3], 1),
                    Add32(Add32(Add32(T1, T1), T0), c.K[2 * round + 9 + 1]))
    IN  [R EXCEPT ![i2] = r2, ![i3] = r3]

\* the sixteen ENC_ROUND lines: even rounds on (R0,R1,R2,R3), odd on (R2,R3,R0,R1)
RECURSIVE EncRounds(_, _, _)
EncRounds(c, R, round) ==
    IF round = 16 THEN R
    ELSE EncRounds(c, IF round % 2 = 0 THEN ENC_ROUND(c, R, 1, 2, 3, 4, round)
                                       ELSE ENC_ROUND(c, R, 3, 4, 1, 2, round),
                   round + 1)

twofish_encrypt_run(c, block) ==
    LET R == EncRounds(c, <<Xor32(c.K[1], BSWAP(Word(block, 0))),
                            Xor32(c.K[2], BSWAP(Word(block, 1))),
                            Xor32(c.K[3], BSWAP(Word(block, 2))),
                            Xor32(c.K[4], BSWAP(Word(block, 3)))>>, 0)
    IN  BSWAP(Xor32(R[3], c.K[5])) \o BSWAP(Xor32(R[4], c.K[6])) \o
        BSWAP(Xor32(R[1], c.K[7])) \o BSWAP(Xor32(R[2], c.K[8]))

\* the mutant of DEC_ROUND: T0 + 2*T1 goes to R2 and T0 + T1 to R3
DEC_ROUND_swapped(c, R, i0, i1, i2, i3, round) ==
    LET T0 == fkh(c, R[i0])
        T1 == fkh(c, ROL(R[i1], 8))
        r2 == Xor32(ROL(R[i2], 1),
                    Add32(Add32(T0, Add32(T1, T1)), c.K[2 * round + 8 + 1]))
        r3 == ROR(Xor32(R[i3], Add32(Add32(T0, T1), c.K[2 * round + 9 + 1])), 1)
    IN  [R EXCEPT ![i2] = r2, ![i3] = r3]

DEC_ROUND(c, R, i0, i1, i2, i3, round) ==
    LET T0 == fkh(c, R[i0])
        T1 == fkh(c, ROL(R[i1], 8))
        r2 == Xor32(ROL(R[i2], 1), Add32(Add32(T0, T1), c.K[2 * round + 8 + 1]))
        r3 == ROR(Xor32(R[i3],
                        Add32(Add32(T0, Add32(T1, T1)), c.K[2 * round + 9 + 1])), 1)
    IN  [R EXCEPT ![i2] = r2, ![i3] = r3]

\* the sixteen DEC_ROUND lines: odd rounds on (R0,R1,R2,R3), even on (R2,R3,R0,R1)
RECURSIVE DecRounds(_, _, _)
DecRounds(c, R, round) ==
    IF round < 0 THEN R
    ELSE DecRounds(c, IF round % 2 = 1 THEN DEC_ROUND(c, R, 1, 2, 3, 4, round)
                                       ELSE DEC_ROUND(c, R, 3, 4, 1, 2, round),
                   round - 1)

twofish_decrypt_run(c, block) ==
    LET R == DecRounds(c, <<Xor32(c.K[5], BSWAP(Word(block, 0))),
                            Xor32(c.K[6], BSWAP(Word(block, 1))),
                            Xor32(c.K[7], BSWAP(Word(block, 2))),
                            Xor32(c.K[8], BSWAP(Word(block, 3)))>>, 15)
    IN  BSWAP(Xor32(R[3], c.K[1])) \o BSWAP(Xor32(R[4], c.K[2])) \o
        BSWAP(Xor32(R[1], c.K[3])) \o BSWAP(Xor32(R[2], c.K[4]))

(***************************************************************************)
(* The Twofish calls the caller makes (src/twofish_wrap.c)                 *)
(***************************************************************************)
\* the keys offered: all zero, and the key of the known-answer tests
TestKey == <<1, 35, 69, 103, 137, 171, 205, 239, 254, 220, 186, 152, 118, 84, 50, 16,
             0, 17, 34, 51, 68, 85, 102, 119, 136, 153, 170, 187, 204, 221, 238, 255>>
KeySizes == {128, 192, 256}
Keys(key_size) ==
    {[i \in 1..(key_size \div 8) |-> 0], SubSeq(TestKey, 1, key_size \div 8)}

\* the blocks offered
MaxBlock == 3
Block(s) == [i \in 1..16 |-> (s * (37 * i + 11 * s)) % 256]
Blocks == {Block(s) : s \in 0..MaxBlock}

\* how many block calls are made on a buffer before it is loaded anew
MaxBlockOps == 2

twofish_set_key ==
    /\ UNCHANGED <<mprsa_vars, step_vars>>
    /\ tf_key = 0 /\ tf_ops = <<>>
    /\ \E key_size \in KeySizes :
       \E M \in Keys(key_size) :
          /\ tf' = twofish_set_key_run(M, key_size)
          /\ tf_key' = key_size
    /\ UNCHANGED <<PT, tf_ops, tf_blocks>>

twofish_encrypt ==
    /\ UNCHANGED <<mprsa_vars, step_vars>>
    /\ Len(tf_ops) < MaxBlockOps
    /\ PT' = twofish_encrypt_run(tf, PT)
    /\ tf_ops' = Append(tf_ops, "encrypt")
    /\ tf_blocks' = Append(tf_blocks, PT')
    /\ UNCHANGED <<tf, tf_key>>

twofish_decrypt ==
    /\ UNCHANGED <<mprsa_vars, step_vars>>
    /\ Len(tf_ops) < MaxBlockOps
    /\ PT' = twofish_decrypt_run(tf, PT)
    /\ tf_ops' = Append(tf_ops, "decrypt")
    /\ tf_blocks' = Append(tf_blocks, PT')
    /\ UNCHANGED <<tf, tf_key>>

\* the Twofish side with a zeroed context and the block `block` in the buffer
twofish_start(block) ==
    /\ tf = twofish_init_ctx
    /\ tf_key = 0
    /\ PT = block
    /\ tf_ops = <<>>
    /\ tf_blocks = <<block>>

(***************************************************************************)
(* Several threads calling into one keyed mp_rsa_ctx and one keyed         *)
(* TWOFISH_CTX; every statement that reads a context is a step             *)
(***************************************************************************)
\* how many threads share the contexts
MaxThreads == 2
Threads == 1..MaxThreads

\* a thread that has not made its call
NoCall == [call |-> "none", pc |-> "idle", shared |-> FALSE]

\* the thread is inside a call
Inside(th) == th.pc \notin {"idle", "done", "raised"}

\* the arguments the threads pass: in range, and too large
SharedInputs(c) == {2, c.n}

\* the thread's frame on entry to the call, its locals as mpz_init leaves them
mp_rsa_encrypt_frame(m) ==
    [call |-> "mp_rsa_encrypt", pc |-> "cmp", shared |-> FALSE,
     message |-> m, cipher |-> 0, result |-> 0]

mp_rsa_decrypt_frame(c, uh, uq, up) ==
    [call |-> "mp_rsa_decrypt", pc |-> "cmp", shared |-> FALSE,
     cipher |-> c, message |-> 0, result |-> 0, wrote |-> FALSE,
     m1 |-> 0, m2 |-> 0, m_prime1 |-> 0, i |-> 0, iters |-> 0,
     uh |-> uh, uq |-> uq, up |-> up]

twofish_frame(call, block) ==
    [call |-> call, pc |-> "load", shared |-> FALSE,
     PT |-> block, R |-> <<U32(0), U32(0), U32(0), U32(0)>>, round |-> 0]

\* what a statement of mp_rsa_encrypt leaves in the context: none assigns a field
mp_rsa_encrypt_writes(c, th) == c

\* the statement of mp_rsa_encrypt at th.pc, on the context as it is now
mp_rsa_encrypt_step(c, th) ==
    IF th.pc = "cmp"
    THEN IF th.message >= c.n
         THEN [th EXCEPT !.pc = "done", !.result = -1]
         ELSE [th EXCEPT !.pc = "powm"]
    ELSE IF mpz_powm_raises(th.message, c.e, c.n)
         THEN [th EXCEPT !.pc = "raised"]
         ELSE [th EXCEPT !.pc = "done", !.result = 0,
                         !.cipher = mpz_powm(th.message, c.e, c.n)]

\* the mutant of mp_rsa_decrypt_writes: the lifting loop keeps p^(i+1) in
\* ctx->p_power instead of the local p_power_i
mp_rsa_decrypt_scratch(c, th) ==
    IF th.pc = "hensel" THEN [c EXCEPT !.p_power = mpz_pow_ui(c.p, th.i + 1)] ELSE c

\* what a statement of mp_rsa_decrypt leaves in the context: none assigns a field
mp_rsa_decrypt_writes(c, th) == c

\* the CRT statements, with the contents uq, up of an undefined q_inv, p_power_inv
CrtCombine(c, m_prime1, m2, uq, up) ==
    LET q_inv       == mpz_invert(c.q, c.p_power, uq).val
        p_power_inv == mpz_invert(c.p_power, c.q, up).val
        term1       == ((m_prime1 * c.q) * q_inv) % c.n
        term2       == ((m2 * c.p_power) * p_power_inv) % c.n
    IN  (term1 + term2) % c.n

\* the thread's frame after one pass of the lifting loop body and the loop test
HenselPass(c, th, st) ==
    IF st.raised THEN [th EXCEPT !.pc = "raised"]
    ELSE [th EXCEPT !.m_prime1 = st.m_prime1, !.iters = st.iters, !.i = th.i + 1,
                    !.pc = IF th.i + 1 < c.b - 1 THEN "hensel" ELSE "crt"]

\* the statement of mp_rsa_decrypt at th.pc, on the context as it is now
mp_rsa_decrypt_step(c, th) ==
    CASE th.pc = "cmp" ->
           IF CipherTooLarge(c, th.cipher)
           THEN [th EXCEPT !.pc = "done", !.result = -1]
           ELSE [th EXCEPT !.pc = "m1"]
      [] th.pc = "m1" ->
           IF mpz_powm_raises(th.cipher, c.r1, c.p)
           THEN [th EXCEPT !.pc = "raised"]
           ELSE [th EXCEPT !.pc = "m2", !.m1 = mpz_powm(th.cipher, c.r1, c.p)]
      [] th.pc = "m2" ->
           IF mpz_powm_raises(th.cipher, c.r2, c.q)
           THEN [th EXCEPT !.pc = "raised"]
           ELSE [th EXCEPT !.pc = "lift", !.m2 = mpz_powm(th.cipher, c.r2, c.q)]
      [] th.pc = "lift" ->
           [th EXCEPT !.m_prime1 = th.m1, !.i = 1,
                      !.pc = IF c.b > 2 /\ 1 < c.b - 1 THEN "hensel" ELSE "crt"]
      [] th.pc = "hensel" ->
           HenselPass(c, th,
                      HenselStep(c, th.cipher, th.i,
                                 [m_prime1 |-> th.m_prime1, iters |-> th.iters,
                                  raised |-> FALSE], th.uh))
      [] OTHER ->
           IF c.n = 0
           THEN [th EXCEPT !.pc = "raised"]
           ELSE [th EXCEPT !.pc = "done", !.result = 0, !.wrote = TRUE,
                           !.message = CrtCombine(c, th.m_prime1, th.m2, th.uq, th.up)]

\* what a statement of twofish_encrypt or twofish_decrypt leaves in the context
twofish_block_writes(f, th) == f

\* the statement of twofish_encrypt at th.pc
twofish_encrypt_step(f, th) ==
    CASE th.pc = "load" ->
           [th EXCEPT !.pc = "round", !.round = 0,
                      !.R = <<Xor32(f.K[1], BSWAP(Word(th.PT, 0))),
                              Xor32(f.K[2], BSWAP(Word(th.PT, 1))),
                              Xor32(f.K[3], BSWAP(Word(th.PT, 2))),
                              Xor32(f.K[4], BSWAP(Word(th.PT, 3)))>>]
      [] th.pc = "round" ->
           [th EXCEPT !.R = IF th.round % 2 = 0
                            THEN ENC_ROUND(f, th.R, 1, 2, 3, 4, th.round)
                            ELSE ENC_ROUND(f, th.R, 3, 4, 1, 2, th.round),
                      !.round = th.round + 1,
                      !.pc = IF th.round = 15 THEN "store" ELSE "round"]
      [] OTHER ->
           [th EXCEPT !.pc = "done",
                      !.PT = BSWAP(Xor32(th.R[3], f.K[5])) \o
                             BSWAP(Xor32(th.R[4], f.K[6])) \o
                             BSWAP(Xor32(th.R[1], f.K[7])) \o
                             BSWAP(Xor32(th.R[2], f.K[8]))]

\* the statement of twofish_decrypt at th.pc
twofish_decrypt_step(f, th) ==
    CASE th.pc = "load" ->
           [th EXCEPT !.pc = "round", !.round = 15,
                      !.R = <<Xor32(f.K[5], BSWAP(Word(th.PT, 0))),
                              Xor32(f.K[6], BSWAP(Word(th.PT, 1))),
                              Xor32(f.K[7], BSWAP(Word(th.PT, 2))),
                              Xor32(f.K[8], BSWAP(Word(th.PT, 3)))>>]
      [] th.pc = "round" ->
           [th EXCEPT !.R = IF th.round % 2 = 1
                            THEN DEC_ROUND(f, th.R, 1, 2, 3, 4, th.round)
                            ELSE DEC_ROUND(f, th.R, 3, 4, 1, 2, th.round),
                      !.round = th.round - 1,
                      !.pc = IF th.round = 0 THEN "store" ELSE "round"]
      [] OTHER ->
           [th EXCEPT !.pc = "done",
                      !.PT = BSWAP(Xor32(th.R[3], f.K[1])) \o
                             BSWAP(Xor32(th.R[4], f.K[2])) \o
                             BSWAP(Xor32(th.R[1], f.K[3])) \o
                             BSWAP(Xor32(th.R[2], f.K[4]))]

\* thread t took a step while another thread was inside a call
Overlapped(t, th) ==
    [th EXCEPT !.shared = th.shared \/ \E u \in Threads \ {t} : Inside(threads[u])]

\* thread t enters one of the four calls
thread_call(t) ==
    /\ alive /\ gen = "idle"
    /\ threads[t].pc = "idle"
    /\ \/ \E m \in SharedInputs(ctx) :
             threads' = [threads EXCEPT ![t] = mp_rsa_encrypt_frame(m)]
       \/ \E c \in SharedInputs(ctx) :
          \E uh \in Undef(ctx.b <= 2),
             uq \in Undef(mpz_invert(ctx.q, ctx.p_power, 0).ok),
             up \in Undef(mpz_invert(ctx.p_power, ctx.q, 0).ok) :
             threads' = [threads EXCEPT ![t] = mp_rsa_decrypt_frame(c, uh, uq, up)]
       \/ \E call \in {"twofish_encrypt", "twofish_decrypt"} :
             threads' = [threads EXCEPT ![t] = twofish_frame(call, Block(t))]
    /\ UNCHANGED <<mprsa_vars, tf_vars, gen>>

\* thread t runs the next statement of its mp_rsa_encrypt call
thread_mp_rsa_encrypt(t) ==
    /\ alive
    /\ threads[t].call = "mp_rsa_encrypt" /\ Inside(threads[t])
    /\ threads' = [threads EXCEPT
                     ![t] = Overlapped(t, mp_rsa_encrypt_step(ctx, threads[t]))]
    /\ ctx' = mp_rsa_encrypt_writes(ctx, threads[t])
    /\ alive' = (threads'[t].pc # "raised")
    /\ UNCHANGED <<op, rc, message, cipher, wrote, m0, dec, key, key_len, exported,
                   keying, tf_vars, gen>>

\* thread t runs the next statement of its mp_rsa_decrypt call
thread_mp_rsa_decrypt(t) ==
    /\ alive
    /\ threads[t].call = "mp_rsa_decrypt" /\ Inside(threads[t])
    /\ threads' = [threads EXCEPT
                     ![t] = Overlapped(t, mp_rsa_decrypt_step(ctx, threads[t]))]
    /\ ctx' = mp_rsa_decrypt_writes(ctx, threads[t])
    /\ alive' = (threads'[t].pc # "raised")
    /\ UNCHANGED <<op, rc, message, cipher, wrote, m0, dec, key, key_len, exported,
                   keying, tf_vars, gen>>

\* thread t runs the next statement of its twofish_encrypt call
thread_twofish_encrypt(t) ==
    /\ alive
    /\ threads[t].call = "twofish_encrypt" /\ Inside(threads[t])
    /\ threads' = [threads EXCEPT
                     ![t] = Overlapped(t, twofish_encrypt_step(tf, threads[t]))]
    /\ tf' = twofish_block_writes(tf, threads[t])
    /\ UNCHANGED <<mprsa_vars, tf_key, PT, tf_ops, tf_blocks, gen>>

\* thread t runs the next statement of its twofish_decrypt call
thread_twofish_decrypt(t) ==
    /\ alive
    /\ threads[t].call = "twofish_decrypt" /\ Inside(threads[t])
    /\ threads' = [threads EXCEPT
                     ![t] = Overlapped(t, twofish_decrypt_step(tf, threads[t]))]
    /\ tf' = twofish_block_writes(tf, threads[t])
    /\ UNCHANGED <<mprsa_vars, tf_key, PT, tf_ops, tf_blocks, gen>>

\* the key material mp_rsa_generate_keys leaves for power b with the primes p, q
GeneratedKey(key_size, b, p, q) ==
    GenFinish(GenIteration(mp_rsa_init(key_size, b), p, q))

\* both contexts keyed, before any thread has made its call
shared_start(key_size, b, p, q) ==
    /\ ctx = GeneratedKey(key_size, b, p, q)
    /\ alive = TRUE
    /\ op = "generate_keys"
    /\ rc = 0
    /\ message = 0
    /\ cipher = 0
    /\ wrote = FALSE
    /\ m0 = NoMsg
    /\ dec = NoDec
    /\ key = NoKey
    /\ key_len = 0
    /\ exported = NoExport
    /\ keying = [op |-> "generate_keys", rc |-> 0, fresh |-> TRUE, calls |-> 1,
                 keyed |-> TRUE]
    /\ tf = twofish_set_key_run(SubSeq(TestKey, 1, 16), 128)
    /\ tf_key = 128
    /\ PT = Block(0)
    /\ tf_ops = <<>>
    /\ tf_blocks = <<Block(0)>>
    /\ gen = "idle"
    /\ threads = [t \in Threads |-> NoCall]

(***************************************************************************)
(* mp_rsa_generate_keys, one pass of its do-while loop at a time           *)
(***************************************************************************)
\* no call is under way
no_calls_running == gen = "idle" /\ threads = [t \in Threads |-> NoCall]

\* the call is entered: the random state is seeded and the bit sizes computed
generate_keys_enter ==
    /\ UNCHANGED tf_vars
    /\ alive /\ Idle /\ MayKey /\ gen = "idle"
    /\ ~GenTraps(ctx)
    /\ gen' = "loop"
    /\ UNCHANGED <<mprsa_vars, threads>>

\* one pass of the loop body with the primes p and q drawn, and the loop test
generate_keys_pass(p, q) ==
    /\ gen = "loop"
    /\ UNCHANGED tf_vars
    /\ p \in Primes[bit_size_p(ctx)] /\ q \in Primes[bit_size_q(ctx)]
    /\ ctx' = GenIteration(ctx, p, q)
    /\ gen' = IF LoopExits(ctx') THEN "exit" ELSE "loop"
    /\ UNCHANGED <<alive, op, rc, message, cipher, wrote, m0, dec, key, key_len,
                   exported, keying, threads>>

\* the loop body with any primes generate_prime can return for the two sizes
generate_keys_loop ==
    /\ gen = "loop"
    /\ \E p \in Primes[bit_size_p(ctx)], q \in Primes[bit_size_q(ctx)] :
           generate_keys_pass(p, q)

\* the statements after the loop, and the return
generate_keys_return ==
    /\ UNCHANGED tf_vars
    /\ gen = "exit"
    /\ ctx' = GenFinish(ctx)
    /\ gen' = "idle"
    /\ op' = "generate_keys"
    /\ rc' = 0
    /\ key' = NoKey /\ key_len' = 0 /\ exported' = NoExport
    /\ keying' = [op |-> "generate_keys", rc |-> 0, fresh |-> keying.op = "init",
                  calls |-> keying.calls + 1, keyed |-> TRUE]
    /\ UNCHANGED <<alive, message, cipher, wrote, m0, dec, threads>>

(***************************************************************************)
(* The two specifications                                                  *)
(***************************************************************************)
Init ==
    /\ \E key_size \in MinKeySize..MaxKeySize, b \in MinB..MaxB :
          mprsa_start(key_size, b)
    /\ twofish_start(Block(0))
    /\ no_calls_running

Next ==
    \/ mp_rsa_generate_keys
    \/ mp_rsa_generate_keys_trap
    \/ mp_rsa_encrypt
    \/ mp_rsa_decrypt
    \/ release
    \/ mp_rsa_export_public_key
    \/ mp_rsa_export_private_key
    \/ mp_rsa_import_public_key
    \/ mp_rsa_import_private_key
    \/ new_ctx

Spec == Init /\ [][Next]_vars

InitTwofish ==
    /\ mprsa_start(MinKeySize, MinB)
    /\ \E block \in Blocks : twofish_start(block)
    /\ no_calls_running

NextTwofish ==
    \/ twofish_set_key
    \/ twofish_encrypt
    \/ twofish_decrypt

SpecTwofish == InitTwofish /\ [][NextTwofish]_vars

\* key generation pass by pass, on contexts as mp_rsa_init and the public import
\* leave them; mpz_urandomb is fair: a loop that keeps running while some draw
\* would end it eventually makes such a draw
InitGenerate == Init

NextGenerate ==
    \/ gen = "idle" /\ mp_rsa_import_public_key
    \/ generate_keys_enter
    \/ generate_keys_loop
    \/ generate_keys_return

FairGenerate ==
    /\ WF_vars(generate_keys_loop)
    /\ WF_vars(generate_keys_loop /\ gen' = "exit")

SpecGenerate == InitGenerate /\ [][NextGenerate]_vars /\ FairGenerate

\* the powers of the keys the threads share: those of the scheme, b >= 2
SharedPowers == {b \in MinB..MaxB : b >= 2}

\* threads sharing the two contexts once mp_rsa_generate_keys and
\* twofish_set_key have returned
InitShared ==
    \E key_size \in MinKeySize..MaxKeySize, b \in SharedPowers :
       LET c == mp_rsa_init(key_size, b)
       IN  /\ ~GenTraps(c)
           /\ \E p \in Primes[bit_size_p(c)], q \in Primes[bit_size_q(c)] :
                 /\ LoopExits(GenIteration(c, p, q))
                 /\ shared_start(key_size, b, p, q)

NextShared ==
    \E t \in Threads :
       \/ thread_call(t)
       \/ thread_mp_rsa_encrypt(t)
       \/ thread_mp_rsa_decrypt(t)
       \/ thread_twofish_encrypt(t)
       \/ thread_twofish_decrypt(t)

SpecShared == InitShared /\ [][NextShared]_vars


(***************************************************************************)
(* Properties of the MPRSA operations                                      *)
(***************************************************************************)
\* the context is as the last generate_keys call left it
Generated == alive /\ keying.op = "generate_keys"

\* decrypt was given the ciphertext that encrypt made of m0
RoundTrip == op = "decrypt" /\ m0 # NoMsg

Range(seq) == {seq[i] : i \in 1..Len(seq)}
Count(seq, x) == Cardinality({i \in 1..Len(seq) : seq[i] = x})

\* C1: under a context keyed by generate_keys with b in {2,3,4}, encrypt
\* succeeds on every m with 0 <= m < n and decrypt of its output succeeds and
\* returns m
C1_RoundTrip ==
    (keying.op = "generate_keys" /\ ctx.b \in {2, 3, 4}) =>
        /\ (op = "encrypt" /\ message < ctx.n => rc = 0)
        /\ (RoundTrip => ~dec.raised /\ rc = 0 /\ message = m0)

\* a key of two distinct primes with e*d = 1 mod (p-1)(q-1) and the CRT exponents
DistinctPrimeKey(c) ==
    /\ IsPrime(c.p) /\ IsPrime(c.q) /\ c.p # c.q
    /\ c.p_power = c.p /\ c.n = c.p * c.q
    /\ (c.e * c.d) % ((c.p - 1) * (c.q - 1)) = 1
    /\ c.r1 = c.d % (c.p - 1)
    /\ c.r2 = c.d % (c.q - 1)

\* C2: with b = 2 decrypt runs no lifting iteration, M'1 = m1 = c^r1 mod p, and
\* under a key of distinct primes with e*d = 1 mod (p-1)(q-1), r1 = d mod (p-1),
\* r2 = d mod (q-1) it returns m for the ciphertext of every m < n
C2_NoLiftingWhenB2 ==
    (op = "decrypt" /\ ctx.b = 2) =>
        /\ dec.iters = 0
        /\ (~dec.raised /\ rc = 0 =>
               dec.m_prime1 = dec.m1 /\ dec.m1 = PowMod(cipher, ctx.r1, ctx.p))
        /\ (DistinctPrimeKey(ctx) /\ m0 # NoMsg =>
               ~dec.raised /\ rc = 0 /\ message = m0)

C2_Witness ==
    /\ RoundTrip /\ ctx.b = 2 /\ DistinctPrimeKey(ctx)
    /\ m0 > 1 /\ message = m0 /\ dec.iters = 0 /\ dec.m_prime1 = dec.m1

\* C3: under a context keyed by twofish_set_key with a 128-, 192- or 256-bit key,
\* a decrypt call right after an encrypt call, and an encrypt call right after a
\* decrypt call, leaves in the buffer the block it held before the first of the two
C3_TwofishRoundTrip ==
    tf_key \in KeySizes =>
        \A i \in 1..(Len(tf_ops) - 1) :
            tf_ops[i] # tf_ops[i + 1] => tf_blocks[i + 2] = tf_blocks[i]

\* the known answer for the 256-bit test key and the zero block, and its decryption
C3_Witness ==
    /\ tf_key = 256
    /\ tf_ops = <<"encrypt", "decrypt">>
    /\ tf_blocks[1] = Block(0)
    /\ tf_blocks[2] = <<55, 82, 123, 224, 5, 35, 52, 184,
                        159, 12, 252, 202, 232, 124, 250, 32>>
    /\ tf_blocks[3] = tf_blocks[1]
    /\ PT = tf_blocks[1]

\* C4: encrypt under a keyed context returns -1 and leaves cipher unwritten when
\* m >= n, and otherwise returns 0 with cipher = m^e mod n, 0 <= cipher < n
C4_EncryptRange ==
    (op = "encrypt" /\ keying.keyed) =>
        IF message >= ctx.n
        THEN rc = -1 /\ ~wrote /\ cipher = 0
        ELSE /\ rc = 0 /\ wrote
             /\ cipher = PowMod(message, ctx.e, ctx.n)
             /\ 0 <= cipher /\ cipher < ctx.n

C4_Witness ==
    op = "encrypt" /\ keying.keyed /\ ctx.n > 1 /\ message = ctx.n /\ rc = -1

\* every temporary that was initialised was cleared, each once
ReleasedOnce(d) ==
    /\ Range(d.cleared) = Range(d.inited)
    /\ \A t \in Range(d.inited) : Count(d.inited, t) = 1 /\ Count(d.cleared, t) = 1

\* C5: decrypt of c >= n returns -1 without writing the message or changing
\* the context, and whenever decrypt returns, on the error path or with
\* success, each temporary it initialised has been cleared exactly once
C5_DecryptTooLarge ==
    [][(op' = "decrypt" /\ ~dec'.raised) =>
          /\ (cipher' >= ctx.n =>
                 rc' = -1 /\ ~wrote' /\ message' = 0 /\ ctx' = ctx)
          /\ ReleasedOnce(dec')]_vars

C5_Witness ==
    /\ op = "decrypt" /\ keying.keyed /\ ctx.n > 1 /\ cipher >= ctx.n
    /\ rc = -1 /\ ~wrote /\ dec.cleared = DecTemps

\* phi as the claim writes it: (p-1)(q-1) p^max(0, b-2)
Phi(c) == ((c.p - 1) * (c.q - 1)) * mpz_pow_ui(c.p, IF c.b > 2 THEN c.b - 2 ELSE 0)

\* C6: when generate_keys has returned, gcd(e, phi) = 1, e*d = 1 mod phi,
\* r1 = d mod (p-1) and r2 = d mod (q-1) for the stored p, q, e, d, r1, r2
C6_KeyEquations ==
    Generated =>
        /\ mpz_gcd(ctx.e, Phi(ctx)) = 1
        /\ (ctx.e * ctx.d) % Phi(ctx) = 1 % Phi(ctx)
        /\ ctx.r1 = ctx.d % (ctx.p - 1)
        /\ ctx.r2 = ctx.d % (ctx.q - 1)

C6_Witness == Generated /\ op = "generate_keys" /\ ctx.b > 2 /\ ctx.d > 1

ModulusRelation(c) ==
    /\ c.n = c.p_power * c.q
    /\ c.b >= 1
    /\ c.p_power = mpz_pow_ui(c.p, c.b - 1)

C8_DistinctPrimes ==
    Generated =>
        /\ ctx.p # ctx.q
        /\ mpz_gcd(ctx.p_power, ctx.q) = 1
        /\ mpz_invert(ctx.q, ctx.p_power, 0).ok
        /\ mpz_invert(ctx.p_power, ctx.q, 0).ok

\* C9: when generate_keys has returned, whatever calls came before it,
\* e = 65537
C9_ExponentAfterGenerate == Generated => ctx.e = PublicExponent

\* the buffer just imported is the export of a generated context, and the
\* importing context was freshly initialised
ImportedExport(import, export) ==
    /\ alive /\ op = import /\ keying.fresh
    /\ exported.kind = export /\ exported.keying.op = "generate_keys"

\* C10: importing the exported public (private) key of a generated context,
\* with the length the export reported, into a freshly initialised context
\* returns 0 and gives n and e (p, q, r1, r2, b, p_power and n) of the original
C10_ExportImport ==
    /\ ImportedExport("import_public", "export_public") =>
          rc = 0 /\ ctx.n = exported.ctx.n /\ ctx.e = exported.ctx.e
    /\ ImportedExport("import_private", "export_private") =>
          /\ rc = 0
          /\ ctx.p = exported.ctx.p /\ ctx.q = exported.ctx.q
          /\ ctx.r1 = exported.ctx.r1 /\ ctx.r2 = exported.ctx.r2
          /\ ctx.b = exported.ctx.b
          /\ ctx.p_power = exported.ctx.p_power /\ ctx.n = exported.ctx.n

C10_Witness ==
    /\ ImportedExport("import_private", "export_private")
    /\ rc = 0 /\ exported.ctx.b = 3 /\ ctx.b = 3
    /\ ctx.n = exported.ctx.n /\ ctx.n > 1 /\ Len(key) < key_len

(***************************************************************************)
(* Properties of the import error paths                                    *)
(***************************************************************************)
\* the text an import just read: the first key_len characters of the buffer
ImportedText == strndup(key, key_len)

\* C11: import_public of a text with no colon and import_private of a text with
\* fewer than four colons return the error code -2 of a malformed key
C11_MissingColon ==
    /\ (op = "import_public" /\ Count(ImportedText, ":") = 0) => rc = -2
    /\ (op = "import_private" /\ Count(ImportedText, ":") < 4) => rc = -2

\* the private key text without its final ':b' field was refused
C11_Witness ==
    /\ op = "import_private"
    /\ key = <<"5", ":", "7", ":", "1", ":", "5">>
    /\ rc = -2 /\ keying.op = "import_private" /\ keying.rc = -2

\* the text before the first ':' of str, all of str when it has none
FirstField(str) == IF strchr(str, ":") = 0 THEN str ELSE Before(str, strchr(str, ":"))

\* what follows the k-th ':' of a text with at least k of them
RECURSIVE AfterColons(_, _)
AfterColons(str, k) ==
    IF k = 0 THEN str ELSE AfterColons(After(str, strchr(str, ":")), k - 1)

HexNumber(str) ==
    str # <<>> /\ \A i \in 1..Len(str) : DigitValue(str[i]) < 16

DecimalNumber(str) ==
    str # <<>> /\ \A i \in 1..Len(str) : str[i] \in {HexDigits[v] : v \in 1..10}

\* a private key text of five fields of which one is not a number
InvalidNumericField(text) ==
    /\ Count(text, ":") >= 4
    /\ \/ \E k \in 0..3 : ~HexNumber(FirstField(AfterColons(text, k)))
       \/ ~DecimalNumber(AfterColons(text, 4))

\* C12: import_private of a text whose p, q, r1 or r2 field is not a hex number
\* or whose b field is not a decimal number returns an error code
C12_InvalidFieldRejected ==
    (op = "import_private" /\ alive /\ InvalidNumericField(ImportedText)) => rc # 0

(***************************************************************************)
(* Properties of the arithmetic of mp_rsa_decrypt                          *)
(***************************************************************************)
\* from iteration i on with st.m_prime1, some lifting step has no inverse of
\* e * M'1^(e-1) mod p or divides an error that is not a multiple of p^i
RECURSIVE HenselFailure(_, _, _, _)
HenselFailure(c, cipher_in, i, st) ==
    IF st.raised \/ ~(i < c.b - 1) THEN FALSE
    ELSE LET p_power_i == mpz_pow_ui(c.p, i + 1)
             error     == (mpz_powm(st.m_prime1, c.e, p_power_i) - cipher_in) % p_power_i
             temp      == (mpz_powm(st.m_prime1, c.e - 1, c.p) * c.e) % c.p
         IN  \/ ~mpz_invert(temp, c.p, 0).ok
             \/ error % mpz_pow_ui(c.p, i) # 0
             \/ HenselFailure(c, cipher_in, i + 1, HenselStep(c, cipher_in, i, st, 0))

\* decrypt of cipher_in under c meets an arithmetic failure
ArithmeticFailure(c, cipher_in) ==
    \/ c.b > 2 /\ HenselFailure(c, cipher_in, 1,
                                [m_prime1 |-> mpz_powm(cipher_in, c.r1, c.p),
                                 iters |-> 0, raised |-> FALSE])
    \/ ~mpz_invert(c.q, c.p_power, 0).ok
    \/ ~mpz_invert(c.p_power, c.q, 0).ok

\* C13: a decrypt call that accepts its ciphertext and meets a missing inverse
\* or an inexact Hensel division returns a nonzero error code
C13_ArithmeticFailureReported ==
    (op = "decrypt" /\ alive /\ ~CipherTooLarge(ctx, cipher)
        /\ ArithmeticFailure(ctx, cipher)) => rc # 0

(***************************************************************************)
(* Properties of the power parameter                                       *)
(***************************************************************************)
\* C15: in every state of a context, after mp_rsa_init, generate_keys or an
\* import, the power parameter b is at least 2
C15_PowerAtLeastTwo == alive => ctx.b >= 2

(***************************************************************************)
(* Properties of the Hensel lifting                                        *)
(***************************************************************************)
\* the inverse of e * m^(e-1) modulo p
LiftInverse(c, m) == mpz_invert((c.e * PowMod(m, c.e - 1, c.p)) % c.p, c.p, 0)

\* M'1 after iterations i .. b-2 of the lifting as the specification states it:
\* M'1 <- (M'1 - ((E / p^i) * inv mod p) * p^i) mod p^(i+1)
RECURSIVE StatedLift(_, _, _, _)
StatedLift(c, cipher_in, i, m) ==
    IF ~(i < c.b - 1) THEN m
    ELSE LET P_i    == mpz_pow_ui(c.p, i)
             P_next == mpz_pow_ui(c.p, i + 1)
             E      == (PowMod(m, c.e, P_next) - cipher_in) % P_next
             step   == (((E \div P_i) * LiftInverse(c, m).val) % c.p) * P_i
         IN  StatedLift(c, cipher_in, i + 1, (m - step) % P_next)

\* every iteration i .. b-2 of it finds its inverse
RECURSIVE StatedLiftDefined(_, _, _, _)
StatedLiftDefined(c, cipher_in, i, m) ==
    IF ~(i < c.b - 1) THEN TRUE
    ELSE /\ LiftInverse(c, m).ok
         /\ StatedLiftDefined(c, cipher_in, i + 1, StatedLift([c EXCEPT !.b = i + 2],
                                                               cipher_in, i, m))

\* a decrypt call with b > 2 went through its lifting loop, on a modulus p >= 2
Lifted ==
    /\ op = "decrypt" /\ alive /\ ~CipherTooLarge(ctx, cipher)
    /\ ctx.b > 2 /\ ctx.p >= 2
    /\ StatedLiftDefined(ctx, cipher, 1, dec.m1)

\* C16: with b > 2 the lifting loop of decrypt runs b - 2 times, leaves in M'1
\* the value the stated iteration gives from m1, and M'1^e = c mod p^(b-1) when
\* m1^e = c mod p and p does not divide m1
C16_HenselLifting ==
    Lifted =>
        /\ dec.iters = ctx.b - 2
        /\ dec.m_prime1 = StatedLift(ctx, cipher, 1, dec.m1)
        /\ (PowMod(dec.m1, ctx.e, ctx.p) = cipher % ctx.p /\ dec.m1 % ctx.p # 0) =>
               PowMod(dec.m_prime1, ctx.e, ctx.p_power) = cipher % ctx.p_power

(***************************************************************************)
(* Properties of the Twofish key schedule                                  *)
(***************************************************************************)
\* k, Me, Mo and S of twofish_set_key for the key M of key_size bits
KeyChunks(key_size) == (key_size + 63) \div 64
EvenWords(M, key_size) == KeyWords(M, KeyChunks(key_size), 0, 0)
OddWords(M, key_size) == KeyWords(M, KeyChunks(key_size), 1, 0)
SboxKeysOf(M, key_size) ==
    SboxKeys(EvenWords(M, key_size), OddWords(M, key_size), KeyChunks(key_size), 0)

\* the context holds the round keys of the key M
KeyedWith(M) ==
    /\ tf_key \in KeySizes
    /\ Len(M) = tf_key \div 8
    /\ tf.K = RoundKeys(EvenWords(M, tf_key), OddWords(M, tf_key), KeyChunks(tf_key), 0)

\* the 32-bit words that went through the buffer
BufferWords == {Word(tf_blocks[j], w) : j \in 1..Len(tf_blocks), w \in 0..3}

\* C17: after twofish_set_key with a key of k = 2, 3 or 4 chunks, the lookup
\* QF[0][b0(X)] ^ QF[1][b1(X)] ^ QF[2][b2(X)] ^ QF[3][b3(X)] equals h(X, S, k)
\* for the S-box keys S of that key
C17_TableLookupIsH ==
    \A key_size \in KeySizes : \A M \in Keys(key_size) :
        KeyedWith(M) =>
            \A X \in BufferWords :
                fkh(tf, X) = h(X, SboxKeysOf(M, tf_key), KeyChunks(tf_key))

\* a 192-bit key (k = 3): the lookup of the first word of a ciphertext
C17_Witness ==
    /\ tf_key = 192 /\ KeyedWith(SubSeq(TestKey, 1, 24))
    /\ tf_ops = <<"encrypt">>
    /\ Word(PT, 0) \in BufferWords
    /\ fkh(tf, Word(PT, 0)) = h(Word(PT, 0), SboxKeysOf(SubSeq(TestKey, 1, 24), 192), 3)
    /\ fkh(tf, Word(PT, 0)) # fkh(tf, Word(tf_blocks[1], 0))

(***************************************************************************)
(* Properties of generate_prime                                            *)
(***************************************************************************)
\* the integers of exactly `bits` bits with bit 0 and bit bits-1 set
Candidates(bits) ==
    {x \in mpz_pow_ui(2, bits - 1)..(mpz_pow_ui(2, bits) - 1) : x % 2 = 1}

\* the least prime greater than or equal to x
LeastPrimeFrom(x) == IF IsPrime(x) THEN x ELSE mpz_nextprime(x)

\* C19: the primes generate_keys got from generate_prime are each the least
\* prime greater than or equal to a candidate of the requested number of bits
\* with its lowest and highest bit set
C19_PrimeFromCandidate ==
    (Generated /\ op = "generate_keys") =>
        /\ \E x \in Candidates(bit_size_p(ctx)) : ctx.p = LeastPrimeFrom(x)
        /\ \E x \in Candidates(bit_size_q(ctx)) : ctx.q = LeastPrimeFrom(x)

(***************************************************************************)
(* Properties of the moduli of mp_rsa_decrypt                              *)
(***************************************************************************)
\* C20: whenever decrypt accepts its ciphertext (cipher < n), the moduli p, q and
\* p_power of the context are all nonzero
C20_NoZeroModulus ==
    (op = "decrypt" /\ ~CipherTooLarge(ctx, cipher)) =>
        ctx.p # 0 /\ ctx.q # 0 /\ ctx.p_power # 0

(***************************************************************************)
(* Properties of the retry loop of mp_rsa_generate_keys                    *)
(***************************************************************************)
\* C18: under fair draws the retry loop of generate_keys eventually exits, from
\* whatever context it was entered with, and it exits only with gcd(e, phi_n) = 1
C18_GenerateTerminates ==
    /\ [](gen = "exit" => mpz_gcd(ctx.e, ctx.phi_n) = 1)
    /\ (gen = "loop") ~> (gen = "exit")

(***************************************************************************)
(* Threads sharing keyed contexts                                          *)
(***************************************************************************)
\* what the call of thread t returns when it runs alone on the contexts c and f
RunAlone(c, f, t, th) ==
    CASE th.call = "mp_rsa_encrypt" ->
           LET r == mp_rsa_encrypt_run(c, th.message, 0)
           IN  <<r.result, r.cipher>>
      [] th.call = "mp_rsa_decrypt" ->
           LET r == mp_rsa_decrypt_run(c, th.cipher, 0, th.uh, th.uq, th.up)
           IN  <<r.result, r.message>>
      [] th.call = "twofish_encrypt" -> twofish_encrypt_run(f, Block(t))
      [] OTHER -> twofish_decrypt_run(f, Block(t))

\* what the finished call of frame th has returned
Returned(th) ==
    CASE th.call = "mp_rsa_encrypt" -> <<th.result, th.cipher>>
      [] th.call = "mp_rsa_decrypt" -> <<th.result, th.message>>
      [] OTHER -> th.PT

\* C14: no step of an encrypt or decrypt call changes a field of the shared
\* mp_rsa_ctx or K and QF of the shared TWOFISH_CTX, and however the threads'
\* calls interleave, each call that finishes returns what it returns run alone
C14_SharedReadOnly ==
    [][/\ ctx' = ctx
       /\ tf' = tf
       /\ \A t \in Threads :
             threads'[t].pc = "done" =>
                Returned(threads'[t]) = RunAlone(ctx, tf, t, threads'[t])]_vars

\* a decryption that lifted and an encryption, both finished with success after
\* running while the other thread was inside its call on the same context
C14_Witness ==
    /\ ctx.b > 2
    /\ threads[1].call = "mp_rsa_decrypt" /\ threads[1].pc = "done"
    /\ threads[1].result = 0 /\ threads[1].iters >= 1 /\ threads[1].shared
    /\ threads[2].call = "mp_rsa_encrypt" /\ threads[2].pc = "done"
    /\ threads[2].result = 0 /\ threads[2].shared

(***************************************************************************)
(* Imports that fail                                                       *)
(***************************************************************************)
\* the step is a returned mp_rsa_import_public_key or mp_rsa_import_private_key
ImportReturned ==
    /\ op' \in {"import_public", "import_private"}
    /\ keying'.op = op'
    /\ keying'.calls = keying.calls + 1

\* C21: an import that returns a nonzero code leaves every field of the context
\* (p, q, n, e, r1, r2, p_power, b) as it was before the call
C21_ImportAllOrNothing ==
    [][(ImportReturned /\ rc' # 0) => ctx' = ctx]_vars
====
